---- MODULE Spec2Model ----
(***************************************************************************)
(* The sharded, TTL-aware cache of src/src/cache.rs: CacheItem and its     *)
(* ordering, Shard (a key -> item map and a BinaryHeap of items), Cache    *)
(* (the shards, the key router, one sweeper thread per shard).             *)
(*                                                                         *)
(* Option<T> is a sequence of length at most one: None is << >> and        *)
(* Some(x) is <<x>>.  Instants and Durations are natural numbers.           *)
(***************************************************************************)
EXTENDS Integers, Sequences, FiniteSets, TLC

\* ------------------------------------------------------------- bounds
MaxTime == 3
\* The largest shard count the key router is tabulated for.
MaxShards == 5

\* ------------------------------------------------------------- inputs
\* The shard counts given to Cache::new; with two shards "a" and "b" route to
\* different shards, with one to the same.
ShardCounts == {0, 1, 2}
Keys == {"a", "b"}
\* The (key, value) pairs given to set: the code copies a value and never
\* looks into it, and an item carries its value and its expiration together.
SetArgs == {<<"a", "v1">>, <<"b", "v2">>}
None == << >>
Some(x) == <<x>>
Durations == {1, 2}
TTLs == {None} \cup {Some(d) : d \in Durations}

\* ------------------------------------------------------------- key router
\* The bytes of each key (key.as_bytes()).
KeyBytes(k) == IF k = "a" THEN <<97>> ELSE <<98>>

\* A u64 is eight bytes, least significant first; this is the FNV-1a offset
\* basis 0xcbf29ce484222325 of FnvHasher::default().
FnvOffsetBasis == <<37, 35, 34, 132, 228, 156, 242, 203>>

\* x ^ y on n-bit operands.
RECURSIVE BitXor(_, _, _)
BitXor(x, y, n) ==
    IF n = 0 THEN 0
    ELSE ((x + y) % 2) + 2 * BitXor(x \div 2, y \div 2, n - 1)

\* h.wrapping_mul(0x100000001b3): (h * 0x1b3) + (h << 40), modulo 2^64.
RECURSIVE MulPrime(_, _, _)
MulPrime(h, i, carry) ==
    IF i > 8 THEN << >>
    ELSE LET t == h[i] * 435 + (IF i > 5 THEN h[i - 5] ELSE 0) + carry
         IN  <<t % 256>> \o MulPrime(h, i + 1, t \div 256)

\* A hasher that multiplies by the prime before it xors the byte in (FNV-1).
RECURSIVE FnvWrite_MultiplyFirst(_, _)
FnvWrite_MultiplyFirst(h, bytes) ==
    IF bytes = << >> THEN h
    ELSE LET m == MulPrime(h, 1, 0)
         IN  FnvWrite_MultiplyFirst([m EXCEPT ![1] = BitXor(m[1], bytes[1], 8)],
                                    Tail(bytes))

\* FnvHasher::write: for each byte, xor it in and multiply by the prime.
RECURSIVE FnvWrite(_, _)
FnvWrite(h, bytes) ==
    IF bytes = << >> THEN h
    ELSE FnvWrite(MulPrime([h EXCEPT ![1] = BitXor(h[1], bytes[1], 8)], 1, 0),
                  Tail(bytes))

\* The hasher's state after writing each key: a hash depends on the key's
\* bytes alone, so each is worked out once.
FnvFinish == [k \in Keys |-> FnvWrite(FnvOffsetBasis, KeyBytes(k))]

hash_for_key(key) == FnvFinish[key]

\* The remainder modulo n of bytes i..8 of h (the high part first).
RECURSIVE ModU64(_, _, _)
ModU64(h, i, n) ==
    IF i > 8 THEN 0
    ELSE (ModU64(h, i + 1, n) * 256 + h[i]) % n

\* hash_for_key(key) % shards; the caller has shards >= 1 (see CacheGet).
shard_from_key(key, shards) == ModU64(hash_for_key(key), 1, shards)

\* ------------------------------------------------------------- CacheItem
CacheItem(key, value, expiration_time) ==
    [key |-> key, value |-> value, expiration_time |-> expiration_time]

\* Option<Instant>::cmp: None is less than every Some.
OptionCmp(x, y) ==
    IF x = None /\ y = None THEN "Equal"
    ELSE IF x = None THEN "Less"
    ELSE IF y = None THEN "Greater"
    ELSE IF x[1] < y[1] THEN "Less"
    ELSE IF x[1] > y[1] THEN "Greater"
    ELSE "Equal"

\* impl Ord for CacheItem
cmp(self, other) ==
    IF self.expiration_time = None THEN "Less"
    ELSE OptionCmp(other.expiration_time, self.expiration_time)

\* PartialOrd::le through partial_cmp = Some(cmp)
le(self, other) == cmp(self, other) \in {"Less", "Equal"}

\* ------------------------------------------------------------- BinaryHeap
\* std's BinaryHeap over a Vec (0-based positions, data[pos + 1] here): a
\* max-heap with respect to cmp.

\* sift_up(start, pos) with the element elt held out of the hole at pos.
RECURSIVE sift_up(_, _, _, _)
sift_up(data, start, pos, elt) ==
    IF pos > start
    THEN LET parent == (pos - 1) \div 2
         IN  IF le(elt, data[parent + 1])
             THEN [data EXCEPT ![pos + 1] = elt]
             ELSE sift_up([data EXCEPT ![pos + 1] = data[parent + 1]],
                          start, parent, elt)
    ELSE [data EXCEPT ![pos + 1] = elt]

\* The descent of sift_down_to_bottom: the hole moves to the greater child
\* until it has no two children, then to a lone child. Returns the data and
\* the hole's final position.
RECURSIVE sift_down_hole(_, _, _)
sift_down_hole(data, pos, end) ==
    LET child == 2 * pos + 1
    IN  IF end >= 2 /\ child <= end - 2
        THEN LET c == IF le(data[child + 1], data[child + 2])
                      THEN child + 1 ELSE child
             IN  sift_down_hole([data EXCEPT ![pos + 1] = data[c + 1]], c, end)
        ELSE IF child = end - 1
        THEN [data |-> [data EXCEPT ![pos + 1] = data[child + 1]], pos |-> child]
        ELSE [data |-> data, pos |-> pos]

sift_down_to_bottom(data, pos) ==
    LET elt == data[pos + 1]
        h == sift_down_hole(data, pos, Len(data))
    IN  sift_up(h.data, pos, h.pos, elt)

\* BinaryHeap::push
HeapPush(data, item) == sift_up(Append(data, item), 0, Len(data), item)

\* BinaryHeap::peek
HeapPeek(data) == IF data = << >> THEN None ELSE Some(data[1])

\* BinaryHeap::pop on a non-empty heap: the popped item and the data left.
HeapPop(data) ==
    LET last == data[Len(data)]
        rest == SubSeq(data, 1, Len(data) - 1)
    IN  IF rest = << >>
        THEN [item |-> last, data |-> rest]
        ELSE [item |-> rest[1],
              data |-> sift_down_to_bottom([rest EXCEPT ![1] = last], 0)]

\* ------------------------------------------------------------- HashMap
EmptyMap == [k \in {} |-> None]

MapGet(items, key) == IF key \in DOMAIN items THEN Some(items[key]) ELSE None

MapInsert(items, key, item) ==
    [k \in DOMAIN items \cup {key} |-> IF k = key THEN item ELSE items[k]]

MapRemove(items, key) == [k \in DOMAIN items \ {key} |-> items[k]]

\* ------------------------------------------------------------- Shard
\* Shard::new
ShardNew == [pq |-> << >>, items |-> EmptyMap]

\* Shard::set, lines 49-53: the item, with expiration_time = ttl.map(now + ttl)
NewItem(key, value, ttl, t) ==
    CacheItem(key, value, IF ttl = None THEN None ELSE Some(t + ttl[1]))

\* A set that pushes on every call.
SetPush_Always(shard, item) == HeapPush(shard.pq, item)

\* Shard::set, line 58: items.get(key).is_none()
NeedsPush(shard, key) == MapGet(shard.items, key) = None

\* Shard::set, lines 58-61: push only if the key is not in the map.
SetPush(shard, item) ==
    IF NeedsPush(shard, item.key)
    THEN HeapPush(shard.pq, item)
    ELSE shard.pq

\* Shard::set, line 63
SetInsert(shard, item) == MapInsert(shard.items, item.key, item)

\* Shard::set
ShardSet(shard, key, value, ttl, t) ==
    LET item == NewItem(key, value, ttl, t)
    IN  [pq |-> SetPush(shard, item), items |-> SetInsert(shard, item)]

\* A get that still returns the value at the instant of expiry.
ShardGet_AtExpiry(shard, key, t) ==
    LET found == MapGet(shard.items, key)
    IN  IF found = None THEN None
        ELSE IF found[1].expiration_time = None THEN Some(found[1].value)
        ELSE IF found[1].expiration_time[1] >= t THEN Some(found[1].value)
        ELSE None

\* Shard::get, lines 68-72: the value returned at instant t.
ShardGet(shard, key, t) ==
    LET found == MapGet(shard.items, key)
    IN  IF found = None THEN None
        ELSE IF found[1].expiration_time = None THEN Some(found[1].value)
        ELSE IF found[1].expiration_time[1] > t THEN Some(found[1].value)
        ELSE None

\* A get that deletes an expired entry when it reads it.
ShardAfterGet_DeleteOnRead(shard, key, t) ==
    IF MapGet(shard.items, key) # None /\ ShardGet(shard, key, t) = None
    THEN [shard EXCEPT !.items = MapRemove(@, key)]
    ELSE shard

\* Shard::get leaves the shard as it is (it takes &self and only reads).
ShardAfterGet(shard, key, t) == shard

\* ------------------------------------------------------------- sweeper
\* The tracing::debug! messages of a pass.
LogNoTtl == "No items with TTL in queue!"
LogNotExpired == "No items with TTL that expired!"
LogUpdated == "Item has been updated - should not evict!"
LogEvicting == "Evicting item - it was expired!"

\* A re-insert that puts the entry back into the map and pushes nothing.
Reinsert_NoPush(data, items, removed) ==
    [pq |-> data,
     items |-> MapInsert(MapRemove(items, removed.key), removed.key, removed)]

\* Lines 129-130: push the entry removed from the map and put it back.
Reinsert(data, items, removed) ==
    [pq |-> HeapPush(data, removed),
     items |-> MapInsert(MapRemove(items, removed.key), removed.key, removed)]

\* A pass that puts back the popped snapshot instead of the map's entry.
AfterPop_Snapshot(popped, data, items, t) ==
    LET found == MapGet(items, popped.key)
    IN  IF found = None
        THEN [shard |-> [pq |-> data, items |-> items], log |-> {}]
        ELSE IF found[1].expiration_time = None
        THEN [shard |-> [pq |-> data, items |-> MapRemove(items, popped.key)],
              log |-> {}]
        ELSE IF found[1].expiration_time[1] > t
        THEN [shard |-> Reinsert(data, items, popped), log |-> {LogUpdated}]
        ELSE [shard |-> [pq |-> data, items |-> MapRemove(items, popped.key)],
              log |-> {LogEvicting}]

\* A pass that, when it evicts, queues the popped record again for the next
\* instant.
AfterPop_Requeue(popped, data, items, t) ==
    LET found == MapGet(items, popped.key)
    IN  IF found = None
        THEN [shard |-> [pq |-> data, items |-> items], log |-> {}]
        ELSE IF found[1].expiration_time = None
        THEN [shard |-> [pq |-> data, items |-> MapRemove(items, popped.key)],
              log |-> {}]
        ELSE IF found[1].expiration_time[1] > t
        THEN [shard |-> Reinsert(data, items, found[1]), log |-> {LogUpdated}]
        ELSE [shard |-> [pq |-> HeapPush(data,
                                   [popped EXCEPT !.expiration_time =
                                       Some(popped.expiration_time[1] + 1)]),
                         items |-> MapRemove(items, popped.key)],
              log |-> {LogEvicting}]

\* Lines 119-136: popped was popped from the heap (data is the heap left);
\* what the pass does with the map's entry for the popped key, and logs.
AfterPop(popped, data, items, t) ==
    LET found == MapGet(items, popped.key)
    IN  IF found = None
        THEN [shard |-> [pq |-> data, items |-> items], log |-> {}]
        ELSE IF found[1].expiration_time = None
        THEN [shard |-> [pq |-> data, items |-> MapRemove(items, popped.key)],
              log |-> {}]
        ELSE IF found[1].expiration_time[1] > t
        THEN [shard |-> Reinsert(data, items, found[1]), log |-> {LogUpdated}]
        ELSE [shard |-> [pq |-> data, items |-> MapRemove(items, popped.key)],
              log |-> {LogEvicting}]

\* A loop that also stops at a record whose expiration is the pass's instant.
PeekStep_StopsAtNow(peeked, t) ==
    IF peeked = None THEN "empty"
    ELSE IF peeked[1].expiration_time = None THEN LogNoTtl
    ELSE IF peeked[1].expiration_time[1] >= t THEN LogNotExpired
    ELSE "pop"

\* Lines 106-117: why the loop stops at the peeked item, or "pop" if it goes
\* on to pop it.
PeekStep(peeked, t) ==
    IF peeked = None THEN "empty"
    ELSE IF peeked[1].expiration_time = None THEN LogNoTtl
    ELSE IF peeked[1].expiration_time[1] > t THEN LogNotExpired
    ELSE "pop"

\* Lines 106-137: the eviction loop at the instant t taken on line 104; the
\* shard it leaves and the messages it logged.
RECURSIVE EvictionLoop(_, _, _)
EvictionLoop(shard, t, log) ==
    LET step == PeekStep(HeapPeek(shard.pq), t)
    IN  IF step = "pop"
        THEN LET p == HeapPop(shard.pq)
                 r == AfterPop(p.item, p.data, shard.items, t)
             IN  EvictionLoop(r.shard, t, log \cup r.log)
        ELSE [shard |-> shard,
              log |-> IF step = "empty" THEN log ELSE log \cup {step}]

\* Lines 106-137 again, for what the loop did rather than what it left: the
\* records it popped, in order, each with what items.remove returned for it.
RECURSIVE PassTrace(_, _)
PassTrace(shard, t) ==
    IF PeekStep(HeapPeek(shard.pq), t) = "pop"
    THEN LET p == HeapPop(shard.pq)
         IN  <<[popped |-> p.item, found |-> MapGet(shard.items, p.item.key)]>>
                 \o PassTrace(AfterPop(p.item, p.data, shard.items, t).shard, t)
    ELSE << >>

\* ------------------------------------------------------------- state
VARIABLES
    phase,      \* "unbuilt", "live" (a Cache exists), "dropped"
    shards,     \* Cache.shards: a sequence of Shard
    now,        \* std::time::Instant::now()
    sweeper,    \* per shard, where its sweeper thread is
    caller,     \* per calling thread, the call it is in and where
    locks,      \* per shard, the holders of its three mutexes
    ret,        \* what the step gave out: a call's return value, a pass's log
    lastSet,    \* history: per key, the item built by the most recent set
                \* and the instant of that set
    pass        \* per shard, the locals of its sweeper's pass: the instant
                \* taken on line 104, the entry items.remove returned, and
                \* (history) the shard as the pass found it

vars == <<phase, shards, now, sweeper, caller, locks, ret, lastSet, pass>>

NoRet == [op |-> "none", key |-> "", val |-> None, log |-> {}]
Returned(op, key, val) == [op |-> op, key |-> key, val |-> val, log |-> {}]
Logged(log) == [op |-> "sweep", key |-> "", val |-> None, log |-> log]
\* shard_from_key with shards = 0: "attempt to calculate the remainder with a
\* divisor of zero"
Panicked(op, key) == [op |-> op, key |-> key, val |-> Some("panic"), log |-> {}]

ShardIds == 1 .. Len(shards)

\* The 1-based position in shards of the shard the key routes to.
ShardOf(key) == shard_from_key(key, Len(shards)) + 1

\* The calling threads; a shard's mutex is held by a caller, by the shard's
\* sweeper thread or by nobody.
Callers == {"c1", "c2"}
Free == "free"
SweeperThread(s) == IF s = 1 THEN "s1" ELSE "s2"
Idle == [pc |-> "idle", op |-> "none", key |-> "", value |-> "", ttl |-> None,
         item |-> None, index |-> 0]

\* A sweeper thread outside the body of its loop has no locals.
NoPass == [now |-> None, removed |-> None, start |-> None]

Init ==
    /\ phase = "unbuilt"
    /\ shards = << >>
    /\ now = 0
    /\ sweeper = << >>
    /\ caller = [c \in Callers |-> Idle]
    /\ locks = << >>
    /\ ret = NoRet
    /\ lastSet = [k \in Keys |-> None]
    /\ pass = << >>

\* Cache::new(number_of_shards): the shards, and one sweeper thread each,
\* entering recv_timeout(CLEANUP_INTERVAL).
CacheNew(number_of_shards) ==
    /\ phase = "unbuilt"
    /\ phase' = "live"
    /\ shards' = [i \in 1 .. number_of_shards |-> ShardNew]
    /\ sweeper' = [i \in 1 .. number_of_shards |-> "recv"]
    /\ locks' = [i \in 1 .. number_of_shards |->
                    [shard |-> Free, pq |-> Free, items |-> Free]]
    /\ pass' = [i \in 1 .. number_of_shards |-> NoPass]
    /\ ret' = NoRet
    /\ UNCHANGED <<now, caller, lastSet>>

\* The history of sets, at the set's insert.
Remember(item) == [lastSet EXCEPT ![item.key] = Some([item |-> item, at |-> now])]

\* Cache::set as one step: the call takes the shard's lock on line 154 and
\* holds it until Shard::set has returned.
CacheSet(key, value, ttl) ==
    /\ phase = "live"
    /\ IF Len(shards) = 0
       THEN /\ ret' = Panicked("set", key)
            /\ UNCHANGED <<shards, lastSet>>
       ELSE /\ locks[ShardOf(key)].shard = Free
            /\ shards' = [shards EXCEPT ![ShardOf(key)] =
                              ShardSet(@, key, value, ttl, now)]
            /\ lastSet' = Remember(NewItem(key, value, ttl, now))
            /\ ret' = NoRet
    /\ UNCHANGED <<phase, now, sweeper, caller, locks, pass>>

\* Cache::get as one step: the call takes the shard's lock on line 149 and
\* holds it until Shard::get has returned.
CacheGet(key) ==
    /\ phase = "live"
    /\ IF Len(shards) = 0
       THEN /\ ret' = Panicked("get", key)
            /\ UNCHANGED shards
       ELSE /\ locks[ShardOf(key)].shard = Free
            /\ ret' = Returned("get", key, ShardGet(shards[ShardOf(key)], key, now))
            /\ shards' = [shards EXCEPT ![ShardOf(key)] =
                              ShardAfterGet(@, key, now)]
    /\ UNCHANGED <<phase, now, sweeper, caller, locks, lastSet, pass>>

\* Time passes.
Tick ==
    /\ now < MaxTime
    /\ now' = now + 1
    /\ ret' = NoRet
    /\ UNCHANGED <<phase, shards, sweeper, caller, locks, lastSet, pass>>

\* A pass that sweeps every shard of the Cache, not only its own.
SweepPass_AllShards(s) ==
    /\ phase = "live"
    /\ sweeper[s] = "recv"
    /\ locks[s].shard = Free
    /\ shards' = [i \in DOMAIN shards |-> EvictionLoop(shards[i], now, {}).shard]
    /\ ret' = Logged(EvictionLoop(shards[s], now, {}).log)
    /\ UNCHANGED <<phase, now, sweeper, caller, locks, lastSet, pass>>

\* Lines 96-137 as one step: recv_timeout returns Err(Timeout) (no message is
\* ever sent on the channel), the thread runs one pass under the shard's
\* locks at the instant of line 104 and calls recv_timeout again. How long
\* the thread waited is left open: a pass may run at any instant.
SweepPass(s) ==
    /\ phase = "live"
    /\ sweeper[s] = "recv"
    /\ locks[s].shard = Free
    /\ shards' = [shards EXCEPT ![s] = EvictionLoop(@, now, {}).shard]
    /\ ret' = Logged(EvictionLoop(shards[s], now, {}).log)
    /\ UNCHANGED <<phase, now, sweeper, caller, locks, lastSet, pass>>

Next ==
    \/ \E n \in ShardCounts : CacheNew(n)
    \/ \E kv \in SetArgs, ttl \in TTLs : CacheSet(kv[1], kv[2], ttl)
    \/ \E k \in Keys : CacheGet(k)
    \/ Tick
    \/ \E s \in ShardIds : SweepPass(s)

Spec == Init /\ [][Next]_vars

\* ------------------------------------------------------------- threads
\* The same calls and passes, one lock acquisition at a time.

Acquire(s, lock, thread) == [locks EXCEPT ![s][lock] = thread]

\* The guards a thread holds are dropped at the end of their scope.
Release(thread) ==
    [i \in DOMAIN locks |->
        [l \in {"shard", "pq", "items"} |->
            IF locks[i][l] = thread THEN Free ELSE locks[i][l]]]

\* A Cache with one Mutex for all its shards.
ShardMutex_Global(index) == 1

\* Lines 92-93: every shard is created inside its own Mutex; the position in
\* locks of the mutex that guards shards[index].
ShardMutex(index) == index

\* Cache::set is called: line 153 routes the key.
CallSet(c, key, value, ttl) ==
    /\ phase = "live"
    /\ caller[c].pc = "idle"
    /\ IF Len(shards) = 0
       THEN /\ ret' = Panicked("set", key)
            /\ UNCHANGED caller
       ELSE /\ ret' = NoRet
            /\ caller' = [caller EXCEPT ![c] =
                              [pc |-> "lock_shard", op |-> "set", key |-> key,
                               value |-> value, ttl |-> ttl, item |-> None,
                               index |-> ShardOf(key)]]
    /\ UNCHANGED <<phase, shards, now, sweeper, locks, lastSet, pass>>

\* Cache::get is called: line 148 routes the key.
CallGet(c, key) ==
    /\ phase = "live"
    /\ caller[c].pc = "idle"
    /\ IF Len(shards) = 0
       THEN /\ ret' = Panicked("get", key)
            /\ UNCHANGED caller
       ELSE /\ ret' = NoRet
            /\ caller' = [caller EXCEPT ![c] =
                              [pc |-> "lock_shard", op |-> "get", key |-> key,
                               value |-> "", ttl |-> None, item |-> None,
                               index |-> ShardOf(key)]]
    /\ UNCHANGED <<phase, shards, now, sweeper, locks, lastSet, pass>>

\* Lines 149, 154: self.shards[index].lock(); a set then builds its item
\* (lines 49-53).
LockShard(c) ==
    /\ caller[c].pc = "lock_shard"
    /\ locks[ShardMutex(caller[c].index)].shard = Free
    /\ locks' = Acquire(ShardMutex(caller[c].index), "shard", c)
    /\ caller' = [caller EXCEPT ![c].pc = "lock_items",
                                ![c].item =
                                    IF caller[c].op = "set"
                                    THEN Some(NewItem(caller[c].key, caller[c].value,
                                                      caller[c].ttl, now))
                                    ELSE None]
    /\ ret' = NoRet
    /\ UNCHANGED <<phase, shards, now, sweeper, lastSet, pass>>

\* Lines 55, 67: self.items.lock(); a set then looks the key up (line 58).
LockItems(c) ==
    /\ caller[c].pc = "lock_items"
    /\ locks[caller[c].index].items = Free
    /\ locks' = Acquire(caller[c].index, "items", c)
    /\ caller' = [caller EXCEPT ![c].pc =
                      IF caller[c].op = "get" THEN "read"
                      ELSE IF NeedsPush(shards[caller[c].index], caller[c].key)
                      THEN "lock_pq"
                      ELSE "insert"]
    /\ ret' = NoRet
    /\ UNCHANGED <<phase, shards, now, sweeper, lastSet, pass>>

\* Line 59: self.pq.lock()
LockPq(c) ==
    /\ caller[c].pc = "lock_pq"
    /\ locks[caller[c].index].pq = Free
    /\ locks' = Acquire(caller[c].index, "pq", c)
    /\ caller' = [caller EXCEPT ![c].pc = "push"]
    /\ ret' = NoRet
    /\ UNCHANGED <<phase, shards, now, sweeper, lastSet, pass>>

\* Lines 60-61: the push; the heap's guard is dropped at the end of the block.
Push(c) ==
    /\ caller[c].pc = "push"
    /\ shards' = [shards EXCEPT ![caller[c].index].pq =
                      HeapPush(@, caller[c].item[1])]
    /\ locks' = Acquire(caller[c].index, "pq", Free)
    /\ caller' = [caller EXCEPT ![c].pc = "insert"]
    /\ ret' = NoRet
    /\ UNCHANGED <<phase, now, sweeper, lastSet, pass>>

\* Lines 63-64 and 154: the insert; the map's guard and then the shard's are
\* dropped as the call returns.
Insert(c) ==
    /\ caller[c].pc = "insert"
    /\ shards' = [shards EXCEPT ![caller[c].index].items =
                      SetInsert(shards[caller[c].index], caller[c].item[1])]
    /\ lastSet' = Remember(caller[c].item[1])
    /\ locks' = Release(c)
    /\ caller' = [caller EXCEPT ![c] = Idle]
    /\ ret' = NoRet
    /\ UNCHANGED <<phase, now, sweeper, pass>>

\* Lines 68-73 and 149: the read; both guards are dropped as the call returns.
Read(c) ==
    /\ caller[c].pc = "read"
    /\ ret' = Returned("get", caller[c].key,
                       ShardGet(shards[caller[c].index], caller[c].key, now))
    /\ shards' = [shards EXCEPT ![caller[c].index] =
                      ShardAfterGet(@, caller[c].key, now)]
    /\ locks' = Release(c)
    /\ caller' = [caller EXCEPT ![c] = Idle]
    /\ UNCHANGED <<phase, now, sweeper, lastSet, pass>>

\* A sweeper that takes the heap's lock without the shard's.
SweeperWoken_NoShardLock == "lock_pq"

\* Where the sweeper goes when recv_timeout lets it into the loop: line 101.
SweeperWoken == "lock_shard"

\* Lines 96-97: recv_timeout returns Err(Timeout). It looks for a
\* disconnected channel before it looks at its deadline.
SweeperTimeout(s) ==
    /\ s \in ShardIds
    /\ phase = "live"
    /\ sweeper[s] = "recv"
    /\ sweeper' = [sweeper EXCEPT ![s] = SweeperWoken]
    /\ ret' = NoRet
    /\ UNCHANGED <<phase, shards, now, caller, locks, lastSet, pass>>

\* Line 101: shard.lock()
SweeperLockShard(s) ==
    /\ s \in ShardIds
    /\ sweeper[s] = "lock_shard"
    /\ locks[ShardMutex(s)].shard = Free
    /\ locks' = Acquire(ShardMutex(s), "shard", SweeperThread(s))
    /\ sweeper' = [sweeper EXCEPT ![s] = "lock_pq"]
    /\ ret' = NoRet
    /\ UNCHANGED <<phase, shards, now, caller, lastSet, pass>>

\* Line 102: shard.pq.lock()
SweeperLockPq(s) ==
    /\ s \in ShardIds
    /\ sweeper[s] = "lock_pq"
    /\ locks[s].pq = Free
    /\ locks' = Acquire(s, "pq", SweeperThread(s))
    /\ sweeper' = [sweeper EXCEPT ![s] = "lock_items"]
    /\ ret' = NoRet
    /\ UNCHANGED <<phase, shards, now, caller, lastSet, pass>>

\* Line 103: shard.items.lock()
SweeperLockItems(s) ==
    /\ s \in ShardIds
    /\ sweeper[s] = "lock_items"
    /\ locks[s].items = Free
    /\ locks' = Acquire(s, "items", SweeperThread(s))
    /\ sweeper' = [sweeper EXCEPT ![s] = "sweep"]
    /\ ret' = NoRet
    /\ UNCHANGED <<phase, shards, now, caller, lastSet, pass>>

\* Lines 104-138: the pass; its three guards are dropped at the end of the
\* loop body, and the thread calls recv_timeout again.
SweeperPass(s) ==
    /\ s \in ShardIds
    /\ sweeper[s] = "sweep"
    /\ shards' = [shards EXCEPT ![s] = EvictionLoop(@, now, {}).shard]
    /\ ret' = Logged(EvictionLoop(shards[s], now, {}).log)
    /\ locks' = Release(SweeperThread(s))
    /\ sweeper' = [sweeper EXCEPT ![s] = "recv"]
    /\ UNCHANGED <<phase, now, caller, lastSet, pass>>

\* drop(cache): the Cache is owned again (no call borrows it); its shard
\* handles and the channel senders txs are released.
CacheDrop ==
    /\ phase = "live"
    /\ \A c \in Callers : caller[c].pc = "idle"
    /\ phase' = "dropped"
    /\ ret' = NoRet
    /\ UNCHANGED <<shards, now, sweeper, caller, locks, lastSet, pass>>

\* A loop that also goes round on Err(Disconnected).
SweeperExit_LoopsOn(s) ==
    /\ s \in ShardIds
    /\ phase = "dropped"
    /\ sweeper[s] = "recv"
    /\ sweeper' = [sweeper EXCEPT ![s] = SweeperWoken]
    /\ ret' = NoRet
    /\ UNCHANGED <<phase, shards, now, caller, locks, lastSet, pass>>

\* Lines 96-97 and 140: with its sender gone recv_timeout returns
\* Err(Disconnected), the while-let ends and the thread exits.
SweeperExit(s) ==
    /\ s \in ShardIds
    /\ phase = "dropped"
    /\ sweeper[s] = "recv"
    /\ sweeper' = [sweeper EXCEPT ![s] = "stopped"]
    /\ ret' = NoRet
    /\ UNCHANGED <<phase, shards, now, caller, locks, lastSet, pass>>

\* The shard positions any Cache of the model has.
AllShardIds == 1 .. 2

CallerStep(c) ==
    \/ LockShard(c)
    \/ LockItems(c)
    \/ LockPq(c)
    \/ Push(c)
    \/ Insert(c)
    \/ Read(c)

SweeperStep(s) ==
    \/ SweeperLockShard(s)
    \/ SweeperLockPq(s)
    \/ SweeperLockItems(s)
    \/ SweeperPass(s)
    \/ SweeperExit(s)

NextThreads ==
    \/ \E n \in ShardCounts : CacheNew(n)
    \/ \E c \in Callers, kv \in SetArgs : CallSet(c, kv[1], kv[2], None)
    \/ \E c \in Callers, k \in Keys : CallGet(c, k)
    \/ \E c \in Callers : CallerStep(c)
    \/ \E s \in AllShardIds : SweeperTimeout(s)
    \/ \E s \in AllShardIds : SweeperStep(s)
    \/ CacheDrop

\* A sweeper thread that can take a step takes one in the end; a caller
\* whose next step is possible again and again (it waits in Mutex::lock for a
\* lock that is released again and again) takes it in the end.
Fairness ==
    /\ \A c \in Callers : SF_vars(CallerStep(c))
    /\ \A s \in AllShardIds : WF_vars(SweeperStep(s))

SpecThreads == Init /\ [][NextThreads]_vars /\ Fairness

\* ------------------------------------------------------------- the pass, step by step
\* The sweeper's pass one statement at a time, between callers that set and
\* get a key with a TTL while time passes.

\* Line 104: let now = Instant::now(), with the three locks held.
PassBegin(s) ==
    /\ s \in ShardIds
    /\ sweeper[s] = "sweep"
    /\ pass' = [pass EXCEPT ![s] =
                   [now |-> Some(now), removed |-> None, start |-> Some(shards[s])]]
    /\ sweeper' = [sweeper EXCEPT ![s] = "peek"]
    /\ ret' = NoRet
    /\ UNCHANGED <<phase, shards, now, caller, locks, lastSet>>

\* Lines 106-117 and 137-138: pq.peek(); on a break, or with the heap empty,
\* the loop ends, the guards are dropped and the thread calls recv_timeout.
PassPeek(s) ==
    /\ s \in ShardIds
    /\ sweeper[s] = "peek"
    /\ LET step == PeekStep(HeapPeek(shards[s].pq), pass[s].now[1])
       IN  IF step = "pop"
           THEN /\ sweeper' = [sweeper EXCEPT ![s] = "pop"]
                /\ ret' = NoRet
                /\ UNCHANGED <<locks, pass>>
           ELSE /\ sweeper' = [sweeper EXCEPT ![s] = "recv"]
                /\ ret' = Logged(IF step = "empty" THEN {} ELSE {step})
                /\ locks' = Release(SweeperThread(s))
                /\ pass' = [pass EXCEPT ![s] = NoPass]
    /\ UNCHANGED <<phase, shards, now, caller, lastSet>>

\* A pass that lets go of its locks once it has taken the entry out of the map.
PassPop_Unlocked(s) ==
    /\ s \in ShardIds
    /\ sweeper[s] = "pop"
    /\ LET p == HeapPop(shards[s].pq)
       IN  /\ shards' = [shards EXCEPT ![s] =
                             [pq |-> p.data, items |-> MapRemove(@.items, p.item.key)]]
           /\ pass' = [pass EXCEPT ![s].removed =
                           Some(MapGet(shards[s].items, p.item.key))]
    /\ locks' = Release(SweeperThread(s))
    /\ sweeper' = [sweeper EXCEPT ![s] = "removed"]
    /\ ret' = NoRet
    /\ UNCHANGED <<phase, now, caller, lastSet>>

\* Lines 119-120: pq.pop() and items.remove(&item.key); the entry removed,
\* if there was one, is now in neither the map nor the heap.
PassPop(s) ==
    /\ s \in ShardIds
    /\ sweeper[s] = "pop"
    /\ LET p == HeapPop(shards[s].pq)
       IN  /\ shards' = [shards EXCEPT ![s] =
                             [pq |-> p.data, items |-> MapRemove(@.items, p.item.key)]]
           /\ pass' = [pass EXCEPT ![s].removed =
                           Some(MapGet(shards[s].items, p.item.key))]
    /\ sweeper' = [sweeper EXCEPT ![s] = "removed"]
    /\ ret' = NoRet
    /\ UNCHANGED <<phase, now, caller, locks, lastSet>>

\* Lines 121-134: an entry that was removed and is not due goes back into
\* the heap and the map; any other is dropped.
PassPut(s) ==
    /\ s \in ShardIds
    /\ sweeper[s] = "removed"
    /\ LET removed == pass[s].removed[1]
           keep == /\ removed # None
                   /\ removed[1].expiration_time # None
                   /\ removed[1].expiration_time[1] > pass[s].now[1]
       IN  /\ shards' = [shards EXCEPT ![s] =
                             IF keep
                             THEN [pq |-> HeapPush(@.pq, removed[1]),
                                   items |-> MapInsert(@.items, removed[1].key,
                                                       removed[1])]
                             ELSE @]
           /\ ret' = IF keep THEN Logged({LogUpdated}) ELSE NoRet
    /\ pass' = [pass EXCEPT ![s].removed = None]
    /\ sweeper' = [sweeper EXCEPT ![s] = "peek"]
    /\ UNCHANGED <<phase, now, caller, locks, lastSet>>

PassStep(s) ==
    \/ SweeperLockShard(s)
    \/ SweeperLockPq(s)
    \/ SweeperLockItems(s)
    \/ PassBegin(s)
    \/ PassPeek(s)
    \/ PassPop(s)
    \/ PassPut(s)

\* The key and the TTLs of the calls, and the one shard, of this specification.
PassKey == "a"
PassTTLs == {Some(d) : d \in Durations}

NextPass ==
    \/ CacheNew(1)
    \/ \E c \in Callers, ttl \in PassTTLs : CallSet(c, PassKey, "v1", ttl)
    \/ \E c \in Callers : CallGet(c, PassKey)
    \/ \E c \in Callers : CallerStep(c)
    \/ Tick
    \/ SweeperTimeout(1)
    \/ PassStep(1)

SpecPass == Init /\ [][NextPass]_vars

\* ------------------------------------------------------------- failures
\* The calls and passes of Spec, with sets whose ttl cannot be added to
\* Instant::now().

\* What lock() finds in a Mutex whose guard was dropped by a panicking thread.
Poisoned == "poisoned"

\* The panics: Instant + Duration ("overflow when adding duration to
\* instant") and lock().unwrap() on a poisoned Mutex (PoisonError).
Overflowed(op, key) == [op |-> op, key |-> key, val |-> Some("overflow"), log |-> {}]
PoisonPanic(op, key) ==
    [op |-> op, key |-> key, val |-> Some("PoisonError"), log |-> {}]

\* Cache::set with a ttl that overflows: line 154 locks the shard, line 52
\* panics inside Shard::set before the map or the heap is touched, and the
\* unwinding drops the shard's guard, which poisons the shard's Mutex.
CacheSetOverflow(key) ==
    /\ phase = "live"
    /\ Len(shards) >= 1
    /\ locks[ShardOf(key)].shard = Free
    /\ locks' = Acquire(ShardOf(key), "shard", Poisoned)
    /\ ret' = Overflowed("set", key)
    /\ UNCHANGED <<phase, shards, now, sweeper, caller, lastSet, pass>>

\* Cache::set and Cache::get on a shard whose Mutex is poisoned: lock()
\* returns Err(PoisonError) and unwrap() panics (lines 149, 154).
CacheSetPoisoned(key) ==
    /\ phase = "live"
    /\ Len(shards) >= 1
    /\ locks[ShardOf(key)].shard = Poisoned
    /\ ret' = PoisonPanic("set", key)
    /\ UNCHANGED <<phase, shards, now, sweeper, caller, locks, lastSet, pass>>

CacheGetPoisoned(key) ==
    /\ phase = "live"
    /\ Len(shards) >= 1
    /\ locks[ShardOf(key)].shard = Poisoned
    /\ ret' = PoisonPanic("get", key)
    /\ UNCHANGED <<phase, shards, now, sweeper, caller, locks, lastSet, pass>>

\* The sweeper wakes to a poisoned shard: shard.lock().unwrap() on line 101
\* panics and the thread is gone, holding no lock.
SweepPoisoned(s) ==
    /\ phase = "live"
    /\ sweeper[s] = "recv"
    /\ locks[s].shard = Poisoned
    /\ sweeper' = [sweeper EXCEPT ![s] = "panicked"]
    /\ ret' = NoRet
    /\ UNCHANGED <<phase, shards, now, caller, locks, lastSet, pass>>

NextFailure ==
    \/ Next
    \/ \E k \in Keys : CacheSetOverflow(k)
    \/ \E k \in Keys : CacheSetPoisoned(k)
    \/ \E k \in Keys : CacheGetPoisoned(k)
    \/ \E s \in ShardIds : SweepPoisoned(s)

SpecFailure == Init /\ [][NextFailure]_vars

\* ------------------------------------------------------------- properties
\* A Cache with at least one shard exists.
Live == phase = "live" /\ Len(shards) >= 1

\* The shard a key routes to, and the key's entry in its map.
HomeShard(k) == shards[ShardOf(k)]
Present(k) == k \in DOMAIN HomeShard(k).items
Entry(k) == HomeShard(k).items[k]

\* The heap records of shard sh that carry key k.
Records(sh, k) == {sh.pq[i] : i \in {j \in 1 .. Len(sh.pq) : sh.pq[j].key = k}}

\* The most recent set on k built an item with an expiration / without one.
LastSetTtl(k) == lastSet[k] # None /\ lastSet[k][1].item.expiration_time # None
LastSetNoTtl(k) == lastSet[k] # None /\ lastSet[k][1].item.expiration_time = None
LastItem(k) == lastSet[k][1].item
LastDeadline(k) == lastSet[k][1].item.expiration_time[1]

\* C1 (expiry visibility): a key whose most recent set had ttl = Some(d) at
\* instant t0 reads as the set value at every instant before t0 + d and as
\* None at every instant from t0 + d on, whatever passes the sweeper has run;
\* this holds of what get would return in every reachable state and of what
\* every get step did return.
C1_ExpiryVisibility ==
    Live =>
        \A k \in Keys :
            LastSetTtl(k) =>
                LET expected == IF now < LastDeadline(k)
                                THEN Some(LastItem(k).value) ELSE None
                IN  /\ LastDeadline(k) \in {lastSet[k][1].at + d : d \in Durations}
                    /\ ShardGet(HomeShard(k), k, now) = expected
                    /\ (ret.op = "get" /\ ret.key = k) => ret.val = expected

\* A get returned None for a key at the very instant of its deadline, after a
\* pass had taken the key out of the map.
C1_Witness ==
    /\ Live
    /\ ret.op = "get"
    /\ ret.val = None
    /\ LastSetTtl(ret.key)
    /\ LastDeadline(ret.key) = now
    /\ ~Present(ret.key)

\* C2 (no-expiry persistence), as claimed: a key whose most recent set had
\* ttl = None reads as that set's value in every later state.
C2_NoExpiryPersistence ==
    Live =>
        \A k \in Keys :
            LastSetNoTtl(k) =>
                ShardGet(HomeShard(k), k, now) = Some(LastItem(k).value)

\* The case of C3: shard s holds a due record of k while the map's entry of k
\* was set, before that record's deadline, with a later deadline not yet due.
RefreshedBeforeDeadline(s, k) ==
    /\ k \in DOMAIN shards[s].items
    /\ LastSetTtl(k)
    /\ now < LastDeadline(k)
    /\ \E r \in Records(shards[s], k) :
          /\ r.expiration_time # None
          /\ lastSet[k][1].at < r.expiration_time[1]
          /\ r.expiration_time[1] <= now

\* C3 (refresh survives sweep), as claimed: after a pass that runs between the
\* two deadlines the map still holds k, get(k) returns the refreshed value and
\* the heap holds a record of k with the refreshed expiration.
C3_RefreshSurvivesSweep ==
    [][\A s \in ShardIds : \A k \in Keys :
          (SweepPass(s) /\ RefreshedBeforeDeadline(s, k)) =>
              /\ k \in DOMAIN shards'[s].items
              /\ ShardGet(shards'[s], k, now) = Some(LastItem(k).value)
              /\ LastItem(k) \in Records(shards'[s], k)]_vars

\* C4 (eviction reclaims memory), as claimed: a key whose entry's deadline has
\* passed is gone from the map once a pass of its shard has run.
C4_EvictionReclaims ==
    [][\A s \in ShardIds : \A k \in Keys :
          (/\ SweepPass(s)
           /\ k \in DOMAIN shards[s].items
           /\ shards[s].items[k].expiration_time # None
           /\ shards[s].items[k].expiration_time[1] < now) =>
              k \notin DOMAIN shards'[s].items]_vars

\* C5 (idempotent overwrite): a set on a key that is in the map leaves the
\* heap as it is, a set on a key that is not adds exactly one record, the
\* new item; either way get(k) then returns the set value.
C5_IdempotentOverwrite ==
    [][\A kv \in SetArgs, ttl \in TTLs :
          (/\ Len(shards) >= 1
           /\ lastSet'[kv[1]] # None
           /\ lastSet'[kv[1]][1].at = now
           /\ lastSet'[kv[1]][1].item = NewItem(kv[1], kv[2], ttl, now)
           /\ CacheSet(kv[1], kv[2], ttl)) =>
              LET k == kv[1]
                  s == ShardOf(k)
              IN  /\ k \in DOMAIN shards[s].items =>
                        shards'[s].pq = shards[s].pq
                  /\ k \notin DOMAIN shards[s].items =>
                        /\ Len(shards'[s].pq) = Len(shards[s].pq) + 1
                        /\ NewItem(k, kv[2], ttl, now) \in Records(shards'[s], k)
                  /\ ShardGet(shards'[s], k, now) = Some(kv[2])]_vars

\* set(k, v, Some(1)) at instant 0 and again, the key still in the map, at a
\* later instant: the heap still holds one record of k, the first set's.
C5_Witness ==
    /\ Live
    /\ now >= 1
    /\ \E k \in Keys :
          /\ Present(k)
          /\ lastSet[k][1].at = now
          /\ Entry(k).expiration_time = Some(now + 1)
          /\ Records(HomeShard(k), k) =
                {CacheItem(k, Entry(k).value, Some(1))}
          /\ Len(HomeShard(k).pq) = 1

\* C6 (the mapping is authoritative): every entry of every shard's map is the
\* item built by the most recent set on its key, sweeper passes included.
C6_MappingAuthoritative ==
    Live =>
        \A s \in ShardIds :
            \A k \in DOMAIN shards[s].items :
                /\ lastSet[k] # None
                /\ shards[s].items[k] = LastItem(k)

\* A pass found a refreshed entry and kept it: the entry is still the most
\* recent set's, while that set was made before the present instant.
C6_Witness ==
    /\ Live
    /\ ret.op = "sweep"
    /\ LogUpdated \in ret.log
    /\ \E k \in Keys :
          /\ Present(k)
          /\ lastSet[k][1].at < now
          /\ Entry(k) \in Records(HomeShard(k), k)

\* C7 (get is read-only): a get step leaves every shard's map and heap as
\* they are, and a step that takes a key out of a map is a sweeper pass.
C7_GetReadOnly ==
    [][/\ \A k \in Keys :
              (ret'.op = "get" /\ ret'.key = k /\ CacheGet(k)) => shards' = shards
       /\ (\E s \in ShardIds : \E k \in DOMAIN shards[s].items :
              k \notin DOMAIN shards'[s].items) => ret'.op = "sweep"]_vars

\* A get returned None for an entry that is expired and still in the map.
C7_Witness ==
    /\ Live
    /\ ret.op = "get"
    /\ ret.val = None
    /\ Present(ret.key)
    /\ Entry(ret.key).expiration_time # None
    /\ Entry(ret.key).expiration_time[1] < now

\* C8 (construction with shard_count = 0 fails), as claimed: no Cache with
\* zero shards is ever returned and no get or set meets a divisor of zero.
C8_ZeroShardsRejected ==
    /\ phase # "unbuilt" => Len(shards) >= 1
    /\ ret.val # Some("panic")

\* The sweeper threads of the Cache, by the names they hold locks under.
Sweepers == {SweeperThread(s) : s \in ShardIds}
ShardOfSweeper(t) == CHOOSE s \in ShardIds : SweeperThread(s) = t

\* The mutex a thread is about to lock, as <<shard, lock>>, or << >>.
Wants(t) ==
    IF t \in Callers
    THEN IF caller[t].pc = "lock_shard"
         THEN <<ShardMutex(caller[t].index), "shard">>
         ELSE IF caller[t].pc = "lock_items" THEN <<caller[t].index, "items">>
         ELSE IF caller[t].pc = "lock_pq" THEN <<caller[t].index, "pq">>
         ELSE << >>
    ELSE LET s == ShardOfSweeper(t)
         IN  IF sweeper[s] = "lock_shard" THEN <<ShardMutex(s), "shard">>
             ELSE IF sweeper[s] = "lock_pq" THEN <<s, "pq">>
             ELSE IF sweeper[s] = "lock_items" THEN <<s, "items">>
             ELSE << >>

\* The thread that holds the mutex t is about to lock, or Free.
WaitsFor(t) == IF Wants(t) = << >> THEN Free ELSE locks[Wants(t)[1]][Wants(t)[2]]

\* Every thread of D waits for a mutex that a thread of D holds.
Deadlocked(D) == D # {} /\ \A t \in D : WaitsFor(t) \in D

NoDeadlock == \A D \in SUBSET (Callers \cup Sweepers) : ~Deadlocked(D)

AllStopped == \A s \in ShardIds : sweeper[s] = "stopped"

\* C9 (sweeper shutdown): a sweeper is Running (at one of the places of its
\* loop) or Stopped; it stops only once the Cache is dropped; Stopped is
\* terminal, and a stopped sweeper leaves its shard and its locks alone; and
\* once the Cache is dropped every sweeper stops in the end, wherever in its
\* loop the drop finds it.
C9_SweeperShutdown ==
    /\ [](\A s \in ShardIds :
            /\ sweeper[s] \in {"recv", "lock_shard", "lock_pq", "lock_items",
                               "sweep", "stopped"}
            /\ sweeper[s] = "stopped" => phase = "dropped")
    /\ [][\A s \in ShardIds :
            sweeper[s] = "stopped" =>
                /\ sweeper'[s] = "stopped"
                /\ shards'[s] = shards[s]
                /\ locks'[s] = locks[s]]_vars
    /\ (phase = "dropped") ~> AllStopped

\* The Cache is dropped, one sweeper has stopped and the other, which the
\* drop found past its recv_timeout, is in the middle of its pass.
C9_Witness ==
    /\ phase = "dropped"
    /\ \E s \in ShardIds : sweeper[s] = "stopped"
    /\ \E s \in ShardIds : sweeper[s] = "sweep"

\* C10 (no deadlock): in no reachable state does a set of threads wait for
\* one another's mutexes, and every get or set that has started returns.
C10_NoDeadlock ==
    /\ [](phase # "unbuilt" => NoDeadlock)
    /\ \A c \in Callers : (caller[c].pc # "idle") ~> (caller[c].pc = "idle")

\* A set holds the shard's lock and the map's and is about to lock the heap
\* while the shard's sweeper waits for the shard's lock.
C10_Witness ==
    \E c \in Callers :
        /\ caller[c].pc = "lock_pq"
        /\ sweeper[caller[c].index] = "lock_shard"
        /\ WaitsFor(SweeperThread(caller[c].index)) = c

\* The shard a thread works on: a caller's routed index, a sweeper's shard.
ThreadShard(t) == IF t \in Callers THEN caller[t].index ELSE ShardOfSweeper(t)

\* C11 (shard independence): a get or set in progress on shard i waits, if it
\* waits at all, for a mutex held by a thread that works on shard i too; when
\* the mutex it is about to lock is free it can take its next step, whatever
\* locks of other shards are held.
C11_ShardIndependence ==
    [](\A c \in Callers :
          caller[c].pc # "idle" =>
              /\ WaitsFor(c) # Free => ThreadShard(WaitsFor(c)) = caller[c].index
              /\ WaitsFor(c) = Free => ENABLED CallerStep(c))

\* Two calls are inside the critical sections of two different shards at
\* once, while the sweeper of one of these shards waits for its shard's lock.
C11_Witness ==
    \E c, d \in Callers :
        /\ caller[c].pc \in {"insert", "read"}
        /\ caller[d].pc \in {"insert", "read"}
        /\ caller[c].index # caller[d].index
        /\ sweeper[caller[d].index] = "lock_shard"
        /\ WaitsFor(SweeperThread(caller[d].index)) = d

\* The shards other than s are left as they are by the step.
OthersUnchanged(s) == \A j \in ShardIds \ {s} : shards'[j] = shards[j]

\* C12 (shard isolation): a set or a get on a key leaves every shard but the
\* key's as it is, a pass of shard s leaves every shard but s as it is, and
\* every map entry and heap record of a key is in the shard the key routes to.
C12_ShardIsolation ==
    /\ [](Live =>
            \A s \in ShardIds : \A k \in Keys :
                (k \in DOMAIN shards[s].items \/ Records(shards[s], k) # {}) =>
                    s = ShardOf(k))
    /\ [][/\ \A kv \in SetArgs, ttl \in TTLs :
               (/\ Len(shards) >= 1
                /\ ret' = NoRet /\ now' = now /\ phase' = phase
                /\ CacheSet(kv[1], kv[2], ttl)) => OthersUnchanged(ShardOf(kv[1]))
          /\ \A k \in Keys :
               (/\ Len(shards) >= 1
                /\ ret'.op = "get" /\ ret'.key = k
                /\ CacheGet(k)) => OthersUnchanged(ShardOf(k))
          /\ \A s \in ShardIds :
               (ret'.op = "sweep" /\ SweepPass(s)) => OthersUnchanged(s)]_vars

\* A pass has evicted a key from one of two shards while the other shard
\* still holds an expired entry of its key and the due record of it.
C12_Witness ==
    /\ Live
    /\ Len(shards) = 2
    /\ ret.op = "sweep"
    /\ LogEvicting \in ret.log
    /\ \E k \in Keys :
          /\ Present(k)
          /\ Entry(k).expiration_time # None
          /\ Entry(k).expiration_time[1] <= now
          /\ Entry(k) \in Records(HomeShard(k), k)
          /\ \E j \in Keys : ShardOf(j) # ShardOf(k) /\ lastSet[j] # None /\ ~Present(j)

\* The published FNV-1a 64-bit hashes of the one-byte keys, least significant
\* byte first: 0xaf63dc4c8601ec8c for "a" and 0xaf63df4c8601f1a5 for "b".
Fnv1aTestVector(k) ==
    IF k = "a" THEN <<140, 236, 1, 134, 76, 220, 99, 175>>
    ELSE <<165, 241, 1, 134, 76, 223, 99, 175>>

\* 256^e modulo n, and with it the remainder of a u64 modulo n as the sum of
\* its bytes' contributions.
RECURSIVE ByteWeight(_, _)
ByteWeight(e, n) == IF e = 0 THEN 1 % n ELSE (256 * ByteWeight(e - 1, n)) % n

RECURSIVE WeightedSum(_, _, _)
WeightedSum(h, i, n) ==
    IF i > 8 THEN 0 ELSE h[i] * ByteWeight(i - 1, n) + WeightedSum(h, i + 1, n)

Remainder(h, n) == WeightedSum(h, 1, n) % n

\* The router's results for every key and every shard count up to MaxShards:
\* the hash modulo the count, inside 0 .. count - 1.
RouterTabulated ==
    \A k \in Keys :
        /\ hash_for_key(k) = Fnv1aTestVector(k)
        /\ \A n \in 1 .. MaxShards :
              /\ shard_from_key(k, n) = Remainder(Fnv1aTestVector(k), n)
              /\ shard_from_key(k, n) \in 0 .. n - 1

\* The 1-based position of the shard the hash modulo the shard count names.
RoutedShard(k) == Remainder(Fnv1aTestVector(k), Len(shards)) + 1

\* C13 (key routing): the index is the key's 64-bit FNV-1a hash modulo the
\* shard count and lies inside the shards; the shard count never changes once
\* the Cache is built, so every set on a key writes to, and every get on it
\* reads from, the one shard at that index.
C13_KeyRouting ==
    /\ [](Live =>
            /\ RouterTabulated
            /\ \A k \in Keys :
                  /\ ShardOf(k) = RoutedShard(k)
                  /\ ShardOf(k) \in ShardIds
                  /\ \A s \in ShardIds :
                        k \in DOMAIN shards[s].items => s = RoutedShard(k))
    /\ [][/\ phase = "live" => Len(shards') = Len(shards)
          /\ \A k \in Keys :
               (Len(shards) >= 1 /\ ret'.op = "get" /\ ret'.key = k) =>
                   ret'.val = ShardGet(shards[RoutedShard(k)], k, now)
          /\ \A kv \in SetArgs, ttl \in TTLs :
               (/\ Len(shards) >= 1
                /\ ret' = NoRet /\ now' = now /\ phase' = phase
                /\ CacheSet(kv[1], kv[2], ttl)) =>
                   shards'[RoutedShard(kv[1])] =
                       ShardSet(shards[RoutedShard(kv[1])], kv[1], kv[2], ttl, now)]_vars

\* With two shards "a" is in the first shard's map and "b" in the second's,
\* and a get of "b" has just returned the value set for it.
C13_Witness ==
    /\ Live
    /\ Len(shards) = 2
    /\ "a" \in DOMAIN shards[1].items
    /\ "b" \in DOMAIN shards[2].items
    /\ ret = Returned("get", "b", Some("v2"))

\* The sweeper of shard s holds the shard's lock: it is between line 101 and
\* the end of the loop body.
InPass(s) ==
    sweeper[s] \in {"lock_pq", "lock_items", "sweep", "peek", "pop", "removed"}

\* The caller holds its shard's lock: it is inside Shard::set or Shard::get.
HoldsShard(c) ==
    caller[c].pc \in {"lock_items", "lock_pq", "push", "insert", "read"}

\* C14 (sweep atomicity): while a sweeper is inside its pass no get or set
\* is inside the same shard; every get of a key whose most recent set gave
\* it a deadline not yet reached returns the set value; and a pass leaves
\* its shard as the whole eviction loop, run at once on the shard the pass
\* found, would leave it.
C14_SweepAtomicity ==
    /\ [](\A s \in ShardIds :
            InPass(s) => \A c \in Callers : caller[c].index = s => ~HoldsShard(c))
    /\ [](\A k \in Keys :
            (/\ Live
             /\ ret.op = "get" /\ ret.key = k
             /\ LastSetTtl(k)
             /\ now < LastDeadline(k)) => ret.val = Some(LastItem(k).value))
    /\ [][\A s \in ShardIds :
            (sweeper[s] = "peek" /\ sweeper'[s] = "recv") =>
                shards'[s] =
                    EvictionLoop(pass[s].start[1], pass[s].now[1], {}).shard]_vars

\* The window: the pass has taken a refreshed, unexpired entry out of the map
\* and has not yet put it back, and a get of that key waits for the shard's
\* lock, which the sweeper holds.
C14_Witness ==
    /\ Live
    /\ \E s \in ShardIds :
          /\ sweeper[s] = "removed"
          /\ pass[s].removed[1] # None
          /\ pass[s].removed[1][1].expiration_time[1] > pass[s].now[1]
          /\ pass[s].removed[1][1].key \notin DOMAIN shards[s].items
          /\ \E c \in Callers :
                /\ caller[c].op = "get"
                /\ caller[c].key = pass[s].removed[1][1].key
                /\ caller[c].pc = "lock_shard"
                /\ WaitsFor(c) = SweeperThread(s)

\* The record a pass of shard s peeks first has an expiration.
RootHasExpiry(s) ==
    /\ shards[s].pq # << >>
    /\ shards[s].pq[1].expiration_time # None
RootExpiry(s) == shards[s].pq[1].expiration_time[1]

\* C15 as claimed (stop at the not-yet-due boundary): a pass whose first
\* peeked record has an expiration at or after the pass's instant, the
\* instant itself included, leaves the heap and the map as they are.
C15_StopsAtOrAfterNow ==
    [][\A s \in ShardIds :
          (/\ ret'.op = "sweep"
           /\ SweepPass(s)
           /\ RootHasExpiry(s)
           /\ RootExpiry(s) >= now) => shards'[s] = shards[s]]_vars

\* C15 as the code has it: a pass whose first peeked record expires after
\* the pass's instant stops there, logs it and leaves the heap and the map
\* as they are; one whose first peeked record expires at or before the
\* instant pops that record; and every record a pass takes off the heap has
\* an expiration at or before the instant.
C15_StopsAfterNow ==
    [][\A s \in ShardIds :
          (ret'.op = "sweep" /\ SweepPass(s)) =>
              /\ (RootHasExpiry(s) /\ RootExpiry(s) > now) =>
                    /\ shards'[s] = shards[s]
                    /\ ret'.log = {LogNotExpired}
              /\ (RootHasExpiry(s) /\ RootExpiry(s) <= now) =>
                    shards[s].pq[1] \notin
                        {shards'[s].pq[i] : i \in 1 .. Len(shards'[s].pq)}
              /\ \A i \in 1 .. Len(shards[s].pq) :
                    shards[s].pq[i] \notin
                        {shards'[s].pq[j] : j \in 1 .. Len(shards'[s].pq)} =>
                        /\ shards[s].pq[i].expiration_time # None
                        /\ shards[s].pq[i].expiration_time[1] <= now]_vars

\* A pass run at the very instant of a key's deadline has evicted the key.
C15_Witness ==
    /\ Live
    /\ ret.op = "sweep"
    /\ LogEvicting \in ret.log
    /\ \E k \in Keys :
          /\ LastSetTtl(k)
          /\ LastDeadline(k) = now
          /\ ~Present(k)
          /\ Records(HomeShard(k), k) = {}

\* The records of a heap that are due before the instant t.
DueBefore(data, t) ==
    {i \in 1 .. Len(data) :
        data[i].expiration_time # None /\ data[i].expiration_time[1] < t}

\* C16 (early stop is complete), as claimed: when a pass has stopped, for
\* whichever of its three reasons, no record left in the shard's heap was
\* due before the pass's instant.
C16_EarlyStopComplete ==
    [][\A s \in ShardIds :
          (ret'.op = "sweep" /\ SweepPass(s)) =>
              DueBefore(shards'[s].pq, now) = {}]_vars

\* Ordering::reverse
Reverse(o) == IF o = "Less" THEN "Greater" ELSE IF o = "Greater" THEN "Less" ELSE o

\* The items shard s holds, in its heap or in its map.
ItemsOf(s) ==
    {shards[s].pq[i] : i \in 1 .. Len(shards[s].pq)}
        \cup {shards[s].items[k] : k \in DOMAIN shards[s].items}

\* C17 (the comparison is a consistent total order), as claimed: over the
\* items a shard holds, cmp(a, b) is the reverse of cmp(b, a), cmp(a, a) is
\* Equal, the order is transitive, and of two items with an expiration the
\* one that expires earlier is the greater (it is popped first).
C17_ConsistentTotalOrder ==
    Live =>
        \A s \in ShardIds : \A a, b \in ItemsOf(s) :
            /\ cmp(a, b) = Reverse(cmp(b, a))
            /\ cmp(a, a) = "Equal"
            /\ \A c \in ItemsOf(s) : (le(a, b) /\ le(b, c)) => le(a, c)
            /\ (/\ a.expiration_time # None
                /\ b.expiration_time # None
                /\ a.expiration_time[1] < b.expiration_time[1]) =>
                    cmp(a, b) = "Greater"

\* How many records of shard sh carry key k.
RecordCount(sh, k) == Cardinality({i \in 1 .. Len(sh.pq) : sh.pq[i].key = k})

\* C18 (heap/map bookkeeping): in every state reached by sets and completed
\* passes each shard's heap holds exactly one record for every key in the
\* shard's map and none for any other key, so the two have the same size; and
\* a pass run in that state finds in the map the key of every record it pops.
C18_HeapMapBookkeeping ==
    Live =>
        \A s \in ShardIds :
            /\ \A k \in Keys :
                  RecordCount(shards[s], k) =
                      IF k \in DOMAIN shards[s].items THEN 1 ELSE 0
            /\ Len(shards[s].pq) = Cardinality(DOMAIN shards[s].items)
            /\ \A i \in 1 .. Len(PassTrace(shards[s], now)) :
                  PassTrace(shards[s], now)[i].found # None

\* One pass over a shard that held both keys has evicted one of them and
\* re-inserted the refreshed entry of the other.
C18_Witness ==
    /\ Live
    /\ ret.op = "sweep"
    /\ {LogUpdated, LogEvicting} \subseteq ret.log
    /\ \E s \in ShardIds :
          /\ Len(shards[s].pq) = 1
          /\ Cardinality(DOMAIN shards[s].items) = 1
          /\ \E k \in DOMAIN shards[s].items :
                /\ lastSet[k][1].at < now
                /\ shards[s].pq[1] = shards[s].items[k]

\* The pop numbered i of a pass at t put a fresher entry back (lines 124-130).
Kept(tr, i, t) ==
    /\ tr[i].found # None
    /\ tr[i].found[1].expiration_time # None
    /\ tr[i].found[1].expiration_time[1] > t

\* C19 (sweep pass termination): a pass ends after at most as many pops as
\* its heap held records when it began, an entry it put back is not popped
\* again in the same pass, and the heap it leaves has shrunk by the number
\* of pops that put nothing back.
C19_PassTerminates ==
    [][\A s \in ShardIds :
          (ret'.op = "sweep" /\ SweepPass(s)) =>
              LET tr == PassTrace(shards[s], now)
              IN  /\ Len(tr) <= Len(shards[s].pq)
                  /\ \A i, j \in 1 .. Len(tr) :
                        (i < j /\ Kept(tr, i, now)) => tr[j].popped # tr[i].found[1]
                  /\ Len(shards'[s].pq) =
                        Len(shards[s].pq)
                            - Cardinality({i \in 1 .. Len(tr) : ~Kept(tr, i, now)})]_vars

\* A pass has popped a due record, put the refreshed entry back and then
\* stopped at it: the entry it put back is the heap's root, not yet due.
C19_Witness ==
    /\ Live
    /\ ret.op = "sweep"
    /\ ret.log = {LogUpdated, LogNotExpired}
    /\ \E s \in ShardIds :
          /\ shards[s].pq # << >>
          /\ shards[s].pq[1].expiration_time # None
          /\ shards[s].pq[1].expiration_time[1] > now
          /\ shards[s].pq[1].key \in DOMAIN shards[s].items
          /\ shards[s].items[shards[s].pq[1].key] = shards[s].pq[1]
          /\ lastSet[shards[s].pq[1].key][1].at < now

\* C20 (failure containment), as claimed: after a set has failed inside a
\* shard every later get and set on that shard still completes (none ends in
\* a panic of its own), and the failing set leaves every other shard, its
\* locks and its sweeper as they were.
C20_FailureContainment ==
    /\ [](ret.val # Some("PoisonError"))
    /\ [][\A k \in Keys :
            (ret'.val = Some("overflow") /\ ret'.key = k) =>
                \A j \in ShardIds \ {ShardOf(k)} :
                    /\ shards'[j] = shards[j]
                    /\ locks'[j] = locks[j]
                    /\ sweeper'[j] = sweeper[j]]_vars
====
